---- MODULE Spec2Model ----
(***************************************************************************)
(* Model of the Michael Hill SKU checker (src/MHJ.py): the sheet reader,   *)
(* the page classifier check_sku_status and the checking loop of main.     *)
(***************************************************************************)
EXTENDS Integers, Sequences, FiniteSets, TLC

(***************************************************************************)
(* Text.  A text is a sequence of one-character strings, so that           *)
(* lower-casing and substring search are computed, not assumed.            *)
(***************************************************************************)
UpperCase == <<"A", "B", "C", "D", "E", "F", "G", "H", "I", "J", "K", "L", "M", "N", "O", "P", "Q", "R", "S", "T", "U", "V", "W", "X", "Y", "Z">>
LowerCase == <<"a", "b", "c", "d", "e", "f", "g", "h", "i", "j", "k", "l", "m", "n", "o", "p", "q", "r", "s", "t", "u", "v", "w", "x", "y", "z">>

\* str.lower() on one character
LowerChar(c) ==
    IF \E k \in 1..Len(UpperCase) : UpperCase[k] = c
    THEN LowerCase[CHOOSE k \in 1..Len(UpperCase) : UpperCase[k] = c]
    ELSE c

\* the characters of the texts of this model
Chars == {UpperCase[k] : k \in 1..Len(UpperCase)} \cup {LowerCase[k] : k \in 1..Len(LowerCase)}
            \cup {" ", "<", ">", "/", "|", ".", "0", "1", "2", "3", "4", "5", "6", "7", "8", "9"}
LowerOf == [c \in Chars |-> LowerChar(c)]

\* str.lower()
lower(s) == [k \in 1..Len(s) |-> LowerOf[s[k]]]

\* Python's `sub in s` on strings
Contains(s, sub) ==
    \E k \in 0..(Len(s) - Len(sub)) :
        \A j \in 1..Len(sub) : s[k + j] = sub[j]

\* the literals of check_sku_status
PhraseNoProducts == <<"n", "o", " ", "p", "r", "o", "d", "u", "c", "t", "s", " ", "w", "e", "r", "e", " ", "f", "o", "u", "n", "d">>
PhraseNoResultsFor == <<"n", "o", " ", "s", "e", "a", "r", "c", "h", " ", "r", "e", "s", "u", "l", "t", "s", " ", "f", "o", "r">>
PhraseTitle == <<"n", "o", " ", "s", "e", "a", "r", "c", "h", " ", "r", "e", "s", "u", "l", "t", "s">>
SearchBase == "https://www.michaelhill.com.au/search?q="

(***************************************************************************)
(* What the browser answers to the calls of one check_sku_status.          *)
(***************************************************************************)
PageProduct == <<"<", "a", ">", "R", "i", "n", "g", "<", "/", "a", ">">>
PageNoProducts == <<"N", "o", " ", "P", "r", "o", "d", "u", "c", "t", "s", " ", "W", "e", "r", "e", " ", "F", "o", "u", "n", "d">>
PageNoResultsFor == <<"N", "O", " ", "S", "E", "A", "R", "C", "H", " ", "R", "E", "S", "U", "L", "T", "S", " ", "F", "O", "R", " ", "7">>
PageNearMiss == <<"N", "o", " ", "S", "e", "a", "r", "c", "h", " ", "R", "e", "s", "u", "l", "t", "s">>
PageBlank == <<>>
TitleSearch == <<"S", "e", "a", "r", "c", "h", " ", "|", " ", "M", "H">>
TitleNoResults == <<"N", "o", " ", "S", "e", "a", "r", "c", "h", " ", "R", "e", "s", "u", "l", "t", "s", " ", "|", " ", "M", "H">>

Pages == {PageProduct, PageNoProducts, PageNoResultsFor, PageNearMiss, PageBlank}
Titles == {TitleSearch, TitleNoResults}

\* most elements one find_elements call returns
MaxElems == 1

\* get_raises: driver.get raises; source_raises: driver.page_source raises;
\* no_results: find_element returns an element ("found"), raises
\* NoSuchElementException ("absent") or raises something else ("raise");
\* products / cart_buttons: the length of the list find_elements returns,
\* unless the call raises; title: driver.title, unless the read raises.
Observations ==
    { o \in [ get_raises : BOOLEAN,
              source_raises : BOOLEAN, page_source : Pages,
              no_results : {"found", "absent", "raise"},
              products_raises : BOOLEAN, products : 0..MaxElems,
              cart_raises : BOOLEAN, cart_buttons : 0..MaxElems,
              title_raises : BOOLEAN, title : Titles ] :
        /\ o.source_raises => o.page_source = PageBlank
        /\ o.products_raises => o.products = 0
        /\ o.cart_raises => o.cart_buttons = 0
        /\ o.title_raises => o.title = TitleSearch }

\* page_source of line 219 holds one of the phrases of lines 230-231
HasPhrase(o) ==
    LET page_source == lower(o.page_source)
    IN \/ Contains(page_source, PhraseNoProducts)
       \/ Contains(page_source, PhraseNoResultsFor)

check_sku_status_ErrorFallback(o) ==
    IF o.get_raises THEN "Error"
    ELSE IF o.source_raises THEN "Error"
    ELSE IF o.no_results = "raise" THEN "Error"
    ELSE IF o.no_results = "found" THEN "Delisted"
    ELSE IF HasPhrase(o) THEN "Delisted"
    ELSE IF ~o.products_raises /\ o.products > 0 THEN "Listed"
    ELSE IF ~o.cart_raises /\ o.cart_buttons > 0 THEN "Listed"
    ELSE IF o.title_raises THEN "Error"
    ELSE IF Contains(lower(o.title), PhraseTitle) THEN "Delisted"
    ELSE "Error"

check_sku_status_ProductsFirst(o) ==
    IF o.get_raises THEN "Error"
    ELSE IF o.source_raises THEN "Error"
    ELSE IF o.no_results = "raise" THEN "Error"
    ELSE IF ~o.products_raises /\ o.products > 0 THEN "Listed"
    ELSE IF ~o.cart_raises /\ o.cart_buttons > 0 THEN "Listed"
    ELSE IF o.no_results = "found" THEN "Delisted"
    ELSE IF HasPhrase(o) THEN "Delisted"
    ELSE IF o.title_raises THEN "Error"
    ELSE IF Contains(lower(o.title), PhraseTitle) THEN "Delisted"
    ELSE "Delisted"

check_sku_status_TitleFirst(o) ==
    IF o.get_raises THEN "Error"
    ELSE IF o.source_raises THEN "Error"
    ELSE IF o.no_results = "raise" THEN "Error"
    ELSE IF o.no_results = "found" THEN "Delisted"
    ELSE IF HasPhrase(o) THEN "Delisted"
    ELSE IF o.title_raises THEN "Error"
    ELSE IF Contains(lower(o.title), PhraseTitle) THEN "Delisted"
    ELSE IF ~o.products_raises /\ o.products > 0 THEN "Listed"
    ELSE IF ~o.cart_raises /\ o.cart_buttons > 0 THEN "Listed"
    ELSE "Delisted"

check_sku_status_TitleSwallowed(o) ==
    IF o.get_raises THEN "Error"
    ELSE IF o.source_raises THEN "Error"
    ELSE IF o.no_results = "raise" THEN "Error"
    ELSE IF o.no_results = "found" THEN "Delisted"
    ELSE IF HasPhrase(o) THEN "Delisted"
    ELSE IF ~o.products_raises /\ o.products > 0 THEN "Listed"
    ELSE IF ~o.cart_raises /\ o.cart_buttons > 0 THEN "Listed"
    ELSE "Delisted"

\* check_sku_status(driver, sku): the status returned when the browser
\* answers o.  The inner try blocks of lines 235-250 swallow every
\* exception; the outer handler of line 258 turns the others into "Error".
check_sku_status(o) ==
    IF o.get_raises THEN "Error"
    ELSE IF o.source_raises THEN "Error"
    ELSE IF o.no_results = "raise" THEN "Error"
    ELSE IF o.no_results = "found" THEN "Delisted"
    ELSE IF HasPhrase(o) THEN "Delisted"
    ELSE IF ~o.products_raises /\ o.products > 0 THEN "Listed"
    ELSE IF ~o.cart_raises /\ o.cart_buttons > 0 THEN "Listed"
    ELSE IF o.title_raises THEN "Error"
    ELSE IF Contains(lower(o.title), PhraseTitle) THEN "Delisted"
    ELSE "Delisted"

\* the calls of check_sku_status that are made when the browser answers o
ReachesSource(o) == ~o.get_raises
ReachesNoResults(o) == ReachesSource(o) /\ ~o.source_raises
ReachesProducts(o) == ReachesNoResults(o) /\ o.no_results = "absent" /\ ~HasPhrase(o)
ReachesCart(o) == ReachesProducts(o) /\ (o.products_raises \/ o.products = 0)
ReachesTitle(o) == ReachesCart(o) /\ (o.cart_raises \/ o.cart_buttons = 0)

\* an exception reaches the handler of line 258
RaisesToHandler(o) ==
    \/ o.get_raises
    \/ ReachesSource(o) /\ o.source_raises
    \/ ReachesNoResults(o) /\ o.no_results = "raise"
    \/ ReachesTitle(o) /\ o.title_raises

\* an exception is swallowed by a bare except of lines 240 or 249
RaisesSwallowed(o) ==
    \/ ReachesProducts(o) /\ o.products_raises
    \/ ReachesCart(o) /\ o.cart_raises

(***************************************************************************)
(* The uploaded sheet: the cells of column A, header row first.  A cell is *)
(* blank, a text or a whole number.                                        *)
(***************************************************************************)
Blank == [kind |-> "blank", text |-> <<>>, num |-> 0]
TextCell(t) == [kind |-> "text", text |-> t, num |-> 0]
NumCell(n) == [kind |-> "num", text |-> <<>>, num |-> n]

HeaderCell == TextCell(<<"S", "K", "U">>)
Cells == {Blank, TextCell(<<"A">>), NumCell(7)}

\* most data rows of an uploaded sheet
MaxRows == 3

RECURSIVE SeqsUpTo(_, _)
SeqsUpTo(S, n) ==
    IF n = 0 THEN {<<>>}
    ELSE LET shorter == SeqsUpTo(S, n - 1)
         IN shorter \cup {Append(q, c) : q \in {r \in shorter : Len(r) = n - 1}, c \in S}

\* no rows at all, or a header row followed by up to MaxRows data rows
Sheets == {<<>>} \cup {<<HeaderCell>> \o d : d \in SeqsUpTo(Cells, MaxRows)}

\* a file pd.read_excel cannot parse: line 307 raises
Unreadable == <<[kind |-> "unreadable", text |-> <<>>, num |-> 0]>>

\* what can be uploaded
Uploads == Sheets \cup {Unreadable}

DigitChars == <<"0", "1", "2", "3", "4", "5", "6", "7", "8", "9">>

\* str() of a non-negative int
RECURSIVE IntStr(_)
IntStr(n) ==
    IF n < 10 THEN <<DigitChars[n + 1]>>
    ELSE IntStr(n \div 10) \o <<DigitChars[(n % 10) + 1]>>

\* str() of a float holding a whole number
FloatStr(n) == IntStr(n) \o <<".", "0">>

\* pd.read_excel: the first row names the column, the rest is the data
DataCells(sh) == IF Len(sh) = 0 THEN <<>> ELSE Tail(sh)

\* df.empty
DfEmpty(sh) == Len(DataCells(sh)) = 0

\* the dtype pandas gives the column: object when a text is present,
\* float64 when whole numbers stand next to a blank (NaN), int64 otherwise
ColumnDtype(data) ==
    IF \E k \in 1..Len(data) : data[k].kind = "text" THEN "object"
    ELSE IF \E k \in 1..Len(data) : data[k].kind = "blank" THEN "float64"
    ELSE "int64"

\* astype(str) on one value of a column of the given dtype
AsStr(dtype, c) ==
    IF c.kind = "text" THEN c.text
    ELSE IF dtype = "float64" THEN FloatStr(c.num)
    ELSE IntStr(c.num)

RECURSIVE MapAsStr(_, _)
MapAsStr(dtype, cells) ==
    IF cells = <<>> THEN <<>>
    ELSE <<AsStr(dtype, Head(cells))>> \o MapAsStr(dtype, Tail(cells))

\* df.iloc[:, 0].dropna().astype(str).tolist()
ReadSkus(sh) ==
    LET data == DataCells(sh)
    IN MapAsStr(ColumnDtype(data), SelectSeq(data, LAMBDA c : c.kind # "blank"))

(***************************************************************************)
(* The run of main.                                                        *)
(***************************************************************************)
MinDelay == 1
MaxDelay == 5
\* the positions of the slider of lines 334-340
Delays == MinDelay..MaxDelay

VARIABLES
    pc,             \* where main stands
    sheet,          \* the uploaded sheet
    skus,           \* skus of line 314
    delay,          \* the slider's value, 0 before line 334
    driver,         \* "none", "failed" (webdriver.Chrome raised), "open" or "quit"
    i,              \* SKUs the loop has finished
    results,        \* results of line 349
    status,         \* status of line 379
    listed_count, delisted_count, error_count,   \* lines 387-389
    metrics,        \* the four metric placeholders, each <<>> or <<the number it shows>>
    report,         \* the results table, the three summary metrics and the download, each <<>> or <<what it shows>>
    errors,         \* the st.error messages shown
    trace,          \* webdriver.Chrome, driver.get, time.sleep(delay) and driver.quit, in call order
    answer          \* <<>> or <<what the browser answered to the check of the pass in progress>>

vars == <<pc, sheet, skus, delay, driver, i, results, status, listed_count,
          delisted_count, error_count, metrics, report, errors, trace, answer>>

search_url(sku) == [base |-> SearchBase, q |-> sku]

Acquire == [op |-> "acquire", url |-> [base |-> "", q |-> <<>>], secs |-> 0]
Quit == [op |-> "quit", url |-> [base |-> "", q |-> <<>>], secs |-> 0]
Fetch(sku) == [op |-> "get", url |-> search_url(sku), secs |-> 0]
Delay(d) == [op |-> "delay", url |-> [base |-> "", q |-> <<>>], secs |-> d]


NeedsDelay_AfterLast(k, n) == k < n

\* line 396: i < len(skus) - 1
NeedsDelay(k, n) == k < n - 1

CountStatus_Off(rs, s) == Len(SelectSeq(rs, LAMBDA r : r.Status = s /\ r.Status # "Error"))

\* len(results_df[results_df['Status'] == s])
CountStatus(rs, s) == Len(SelectSeq(rs, LAMBDA r : r.Status = s))

AppendResult_Dedup(rs, sku, st) ==
    IF \E k \in 1..Len(rs) : rs[k].SKU = sku THEN rs
    ELSE Append(rs, [SKU |-> sku, Status |-> st])

\* results.append({'SKU': sku, 'Status': status})
AppendResult(rs, sku, st) == Append(rs, [SKU |-> sku, Status |-> st])

\* the placeholders of lines 358-361, still empty
NoMetrics == [total |-> <<>>, listed |-> <<>>, delisted |-> <<>>, error |-> <<>>]

\* nothing of lines 405-440 is shown
NoReport ==
    [table |-> <<>>,
     summary |-> [listed |-> <<>>, delisted |-> <<>>, error |-> <<>>],
     download |-> <<>>]

\* the exception is an Exception, which line 442 catches, or another
\* BaseException (KeyboardInterrupt, a script-control exception), which it
\* does not
ExceptionKinds == {"Exception", "BaseException"}

\* lines 442-443 after the messages es: st.error for an Exception; anything
\* else leaves main, as does an Exception when the st.error of line 443
\* raises in turn
Handled(es, kind) == IF kind = "Exception" THEN Append(es, "Error") ELSE es

InitRun ==
    /\ skus = <<>>
    /\ delay = 0
    /\ driver = "none"
    /\ i = 0
    /\ results = <<>>
    /\ status = "none"
    /\ listed_count = 0
    /\ delisted_count = 0
    /\ error_count = 0
    /\ metrics = NoMetrics
    /\ report = NoReport
    /\ errors = <<>>
    /\ trace = <<>>

\* a file has been uploaded
Init ==
    /\ pc = "uploaded"
    /\ sheet \in Uploads
    /\ answer = <<>>
    /\ InitRun

\* lines 304-345: the file is read, and rejected with a message, or its
\* SKUs and the widgets are shown, the slider of line 334 standing at d
ReadSheet(d) ==
    /\ pc = "uploaded"
    /\ sheet # Unreadable
    /\ IF DfEmpty(sheet)
       THEN /\ errors' = Append(errors, "The uploaded file is empty!")
            /\ pc' = "returned"
            /\ skus' = skus
            /\ delay' = delay
       ELSE /\ skus' = ReadSkus(sheet)
            /\ IF skus' = <<>>
               THEN /\ errors' = Append(errors, "No SKUs found in Column A!")
                    /\ pc' = "returned"
                    /\ delay' = delay
               ELSE /\ errors' = errors
                    /\ pc' = "ready"
                    /\ delay' = d
    /\ UNCHANGED <<sheet, driver, i, results, status, listed_count,
                   delisted_count, error_count, metrics, report, trace, answer>>

\* the calls of lines 307-345 that can raise: pd.read_excel (307), the
\* st.error of a rejection (310, 317), the Streamlit calls that show the
\* SKUs, up to the slider itself (321-340), and those after the slider has
\* given its value (343-345)
ReadPoints == {"read_excel", "message", "preview", "button"}

\* lines 307-345 with the call `at` raising, the slider standing at d: main
\* is left through the handler of lines 442-443
ReadRaises(d, at, kind) ==
    /\ pc = "uploaded"
    /\ CASE at = "read_excel" ->
              /\ sheet = Unreadable
              /\ skus' = skus
              /\ delay' = delay
         [] at = "message" ->
              /\ sheet # Unreadable
              /\ DfEmpty(sheet) \/ ReadSkus(sheet) = <<>>
              /\ skus' = skus
              /\ delay' = delay
         [] at \in {"preview", "button"} ->
              /\ sheet # Unreadable
              /\ ~DfEmpty(sheet)
              /\ ReadSkus(sheet) # <<>>
              /\ skus' = ReadSkus(sheet)
              /\ delay' = IF at = "button" THEN d ELSE delay
    /\ pc' = "aborted"
    /\ errors' = Handled(errors, kind)
    /\ UNCHANGED <<sheet, driver, i, results, status, listed_count,
                   delisted_count, error_count, metrics, report, trace, answer>>

\* the answers of the browser to the calls one check makes: a call that is
\* not made has no answer
Answered(o) ==
    /\ ~ReachesSource(o) => ~o.source_raises /\ o.page_source = PageBlank
    /\ ~ReachesNoResults(o) => o.no_results = "absent"
    /\ ~ReachesProducts(o) => ~o.products_raises /\ o.products = 0
    /\ ~ReachesCart(o) => ~o.cart_raises /\ o.cart_buttons = 0
    /\ ~ReachesTitle(o) => ~o.title_raises /\ o.title = TitleSearch

\* the pages the browser shows during a run: one without a phrase and one
\* with each phrase of lines 230-231
RunPages == {PageProduct, PageNoProducts, PageNoResultsFor}

\* the answers of the browser during a run, one per path through
\* check_sku_status: every call raising or not, the element found or absent,
\* each phrase, each lookup empty or not, the title with and without 'no
\* search results'.  Left out are the answers that take the same path with
\* another text that decides nothing (the other pages without a phrase, the
\* page behind an element that is found or a lookup that raises) or with two
\* elements instead of one.
RunObservations ==
    {o \in Observations :
        /\ Answered(o)
        /\ o.products \in {0, 1} /\ o.cart_buttons \in {0, 1}
        /\ ReachesNoResults(o) =>
              /\ o.page_source \in RunPages
              /\ o.no_results # "absent" => o.page_source = PageNoResultsFor}

\* the messages of setup_driver (208) and of main (370)
MsgNoChrome == "Could not start Chrome driver"
MsgNoBrowser == "Failed to start browser. Check ChromeDriver installation."

StartChecking_IgnoresNone(ok) ==
    /\ pc = "ready"
    /\ results' = <<>>
    /\ pc' = "loop"
    /\ IF ok
       THEN /\ driver' = "open"
            /\ trace' = Append(trace, Acquire)
            /\ errors' = errors
       ELSE /\ driver' = "failed"
            /\ trace' = trace
            /\ errors' = Append(errors, MsgNoChrome)
    /\ UNCHANGED <<sheet, skus, delay, i, status, listed_count, delisted_count,
                   error_count, metrics, report, answer>>

\* lines 348-367 with setup_driver (194-210): the button is pressed, the
\* placeholders are made and setup_driver returns a driver (ok) or shows its
\* error and returns None
StartChecking(ok) ==
    /\ pc = "ready"
    /\ results' = <<>>
    /\ IF ok
       THEN /\ driver' = "open"
            /\ trace' = Append(trace, Acquire)
            /\ errors' = errors
            /\ pc' = "loop"
       ELSE /\ driver' = "failed"
            /\ trace' = trace
            /\ errors' = Append(errors, MsgNoChrome)
            /\ pc' = "no_driver"
    /\ UNCHANGED <<sheet, skus, delay, i, status, listed_count, delisted_count,
                   error_count, metrics, report, answer>>

\* the Streamlit calls of lines 352-367 that can raise: those that make the
\* placeholders and announce the browser (352-365) and, when
\* webdriver.Chrome has raised, the st.error of line 208 and the st.info of
\* line 209
StartPoints == {"placeholders", "chrome_error", "chrome_hint"}

\* lines 348-367 with the call `at` raising: setup_driver is not called
\* (placeholders) or is left by the exception, and main is left through the
\* handler of lines 442-443
StartRaises(at, kind) ==
    /\ pc = "ready"
    /\ results' = <<>>
    /\ driver' = IF at = "placeholders" THEN driver ELSE "failed"
    /\ errors' = Handled(IF at = "chrome_hint" THEN Append(errors, MsgNoChrome) ELSE errors, kind)
    /\ pc' = "aborted"
    /\ UNCHANGED <<sheet, skus, delay, i, status, listed_count, delisted_count,
                   error_count, metrics, report, trace, answer>>

\* lines 369-371: setup_driver returned None; the error is shown and main
\* returns
NoDriver ==
    /\ pc = "no_driver"
    /\ errors' = Append(errors, MsgNoBrowser)
    /\ pc' = "returned"
    /\ UNCHANGED <<sheet, skus, delay, driver, i, results, status, listed_count,
                   delisted_count, error_count, metrics, report, trace, answer>>

\* line 370 raises
NoDriverRaises(kind) ==
    /\ pc = "no_driver"
    /\ errors' = Handled(errors, kind)
    /\ pc' = "aborted"
    /\ UNCHANGED <<sheet, skus, delay, driver, i, results, status, listed_count,
                   delisted_count, error_count, metrics, report, trace, answer>>

\* lines 375-380: a pass of the loop begins; the SKU is announced and
\* checked, the browser answering o, and the result is appended
Iterate(o) ==
    /\ pc = "loop"
    /\ i < Len(skus)
    /\ LET sku == skus[i + 1]
           st == check_sku_status(o)
       IN /\ answer' = <<o>>
          /\ status' = st
          /\ results' = AppendResult(results, sku, st)
          /\ trace' = Append(trace, Fetch(sku))
    /\ pc' = "pass"
    /\ UNCHANGED <<sheet, skus, delay, driver, i, listed_count, delisted_count,
                   error_count, metrics, report, errors>>

\* lines 383-397: the pass ends; the progress bar and the four metrics are
\* brought up to the results and the delay is made unless the SKU was the
\* last
ShowCounts ==
    /\ pc = "pass"
    /\ listed_count' = CountStatus(results, "Listed")
    /\ delisted_count' = CountStatus(results, "Delisted")
    /\ error_count' = CountStatus(results, "Error")
    /\ metrics' = [total |-> <<i + 1>>,
                    listed |-> <<listed_count'>>,
                    delisted |-> <<delisted_count'>>,
                    error |-> <<error_count'>>]
    /\ trace' = IF NeedsDelay(i, Len(skus)) THEN Append(trace, Delay(delay)) ELSE trace
    /\ i' = i + 1
    /\ answer' = <<>>
    /\ pc' = "loop"
    /\ UNCHANGED <<sheet, skus, delay, driver, results, status, report, errors>>

\* the Streamlit calls of a pass that can raise: st.info (377),
\* progress_bar.progress (383) and the four metric calls (391-394)
RaisePoints == {"info", "progress", "total", "listed", "delisted", "error"}

\* the placeholders when the metric call `at` raises: the calls before it
\* have shown their numbers
MetricsUpTo(m, at, tot, l, d) ==
    [total |-> IF at \in {"listed", "delisted", "error"} THEN <<tot>> ELSE m.total,
     listed |-> IF at \in {"delisted", "error"} THEN <<l>> ELSE m.listed,
     delisted |-> IF at = "error" THEN <<d>> ELSE m.delisted,
     error |-> m.error]

PassRaises_NoFinally(at, kind) ==
    /\ IF at = "info"
       THEN /\ pc = "loop"
            /\ i < Len(skus)
            /\ UNCHANGED <<listed_count, delisted_count, error_count, metrics>>
       ELSE LET counted == at # "progress"
            IN /\ pc = "pass"
               /\ listed_count' = IF counted THEN CountStatus(results, "Listed") ELSE listed_count
               /\ delisted_count' = IF counted THEN CountStatus(results, "Delisted") ELSE delisted_count
               /\ error_count' = IF counted THEN CountStatus(results, "Error") ELSE error_count
               /\ metrics' = MetricsUpTo(metrics, at, i + 1, listed_count', delisted_count')
    /\ pc' = "aborted"
    /\ errors' = Handled(errors, kind)
    /\ UNCHANGED <<sheet, skus, delay, driver, i, results, status, report, trace, answer>>

\* lines 376-394 with the Streamlit call `at` raising: st.info as the pass
\* begins, or a later call after the result was appended; the pass is done
\* up to that call, the finally of lines 401-402 quits the driver and the
\* handler of lines 442-443 shows the error if it catches the exception
PassRaises(at, kind) ==
    /\ IF at = "info"
       THEN /\ pc = "loop"
            /\ i < Len(skus)
            /\ UNCHANGED <<listed_count, delisted_count, error_count, metrics>>
       ELSE LET counted == at # "progress"
            IN /\ pc = "pass"
               /\ listed_count' = IF counted THEN CountStatus(results, "Listed") ELSE listed_count
               /\ delisted_count' = IF counted THEN CountStatus(results, "Delisted") ELSE delisted_count
               /\ error_count' = IF counted THEN CountStatus(results, "Error") ELSE error_count
               /\ metrics' = MetricsUpTo(metrics, at, i + 1, listed_count', delisted_count')
    /\ driver' = "quit"
    /\ trace' = Append(trace, Quit)
    /\ pc' = "aborted"
    /\ errors' = Handled(errors, kind)
    /\ UNCHANGED <<sheet, skus, delay, i, results, status, report, answer>>

\* line 399 raises after the last pass, or driver.quit of line 402 does:
\* finally and handler as above
CompleteRaises(kind) ==
    /\ pc = "loop"
    /\ i = Len(skus)
    /\ driver' = "quit"
    /\ trace' = Append(trace, Quit)
    /\ pc' = "aborted"
    /\ errors' = Handled(errors, kind)
    /\ UNCHANGED <<sheet, skus, delay, i, results, status, listed_count,
                   delisted_count, error_count, metrics, report, answer>>

\* the report when everything before the element `upto` has been shown
ReportUpTo(upto) ==
    LET shown(before) == upto \in before
    IN [table |-> IF shown({"listed", "delisted", "error", "download", "end"})
                  THEN <<results>> ELSE <<>>,
        summary |-> [listed |-> IF shown({"delisted", "error", "download", "end"})
                                THEN <<listed_count>> ELSE <<>>,
                     delisted |-> IF shown({"error", "download", "end"})
                                  THEN <<delisted_count>> ELSE <<>>,
                     error |-> IF shown({"download", "end"})
                               THEN <<error_count>> ELSE <<>>],
        download |-> IF shown({"end"}) THEN <<results>> ELSE <<>>]

\* lines 399-440: the loop is over; quit the driver, show the table, the
\* summary and the download
Finish ==
    /\ pc = "loop"
    /\ i = Len(skus)
    /\ driver' = "quit"
    /\ trace' = Append(trace, Quit)
    /\ report' = ReportUpTo("end")
    /\ pc' = "done"
    /\ UNCHANGED <<sheet, skus, delay, i, results, status, listed_count,
                   delisted_count, error_count, metrics, errors, answer>>

\* the calls of lines 405-440 that can raise, each named by the element it
\* would have shown: the heading and the table (405-420), st.columns and
\* the Listed metric (423-424), the Delisted metric (425), the Errors
\* metric (426), the workbook and the download button (429-440)
ReportPoints == {"table", "listed", "delisted", "error", "download"}

\* lines 399-440 with the call `at` raising: the driver is quit, the report
\* is shown up to that call and main is left through the handler of lines
\* 442-443
ReportRaises(at, kind) ==
    /\ pc = "loop"
    /\ i = Len(skus)
    /\ driver' = "quit"
    /\ trace' = Append(trace, Quit)
    /\ report' = ReportUpTo(at)
    /\ pc' = "aborted"
    /\ errors' = Handled(errors, kind)
    /\ UNCHANGED <<sheet, skus, delay, i, results, status, listed_count,
                   delisted_count, error_count, metrics, answer>>

Next ==
    \/ \E d \in Delays : ReadSheet(d)
    \/ \E d \in Delays, at \in ReadPoints, kind \in ExceptionKinds : ReadRaises(d, at, kind)
    \/ \E ok \in BOOLEAN : StartChecking(ok)
    \/ \E at \in StartPoints, kind \in ExceptionKinds : StartRaises(at, kind)
    \/ NoDriver
    \/ \E kind \in ExceptionKinds : NoDriverRaises(kind)
    \/ \E o \in RunObservations : Iterate(o)
    \/ ShowCounts
    \/ \E at \in RaisePoints, kind \in ExceptionKinds : PassRaises(at, kind)
    \/ \E kind \in ExceptionKinds : CompleteRaises(kind)
    \/ Finish
    \/ \E at \in ReportPoints, kind \in ExceptionKinds : ReportRaises(at, kind)

Spec == Init /\ [][Next]_vars

(***************************************************************************)
(* The classifier alone, on every answer of the browser.                   *)
(***************************************************************************)
InitCheck ==
    /\ pc = "check"
    /\ sheet = <<>>
    /\ answer \in {<<o>> : o \in Observations}
    /\ InitRun

\* one call of check_sku_status
CheckOne ==
    /\ pc = "check"
    /\ status' = check_sku_status(answer[1])
    /\ pc' = "checked"
    /\ UNCHANGED <<sheet, skus, delay, driver, i, results, listed_count,
                   delisted_count, error_count, metrics, report, errors, trace, answer>>

NextCheck == CheckOne

SpecCheck == InitCheck /\ [][NextCheck]_vars

(***************************************************************************)
(* Properties.                                                             *)
(***************************************************************************)
Last(q) == q[Len(q)]

\* number of results with status s, counted index by index
NumWithStatus(rs, s) == Cardinality({k \in 1..Len(rs) : rs[k].Status = s})

\* the calls of the given kind in the trace, in order
Calls(ops) == SelectSeq(trace, LAMBDA e : e.op \in ops)

\* the loop has run to its end
LoopComplete == pc = "done" \/ (pc = "loop" /\ i = Len(skus))

\* text s holds the lower-case phrase in some mix of letter cases
SameLetter(c, l) == c = l \/ \E k \in 1..Len(UpperCase) : UpperCase[k] = c /\ LowerCase[k] = l
ContainsAnyCase(s, phrase) ==
    \E k \in 0..(Len(s) - Len(phrase)) :
        \A j \in 1..Len(phrase) : SameLetter(s[k + j], phrase[j])
ShowsDelistingPhrase(o) ==
    \/ ContainsAnyCase(o.page_source, PhraseNoProducts)
    \/ ContainsAnyCase(o.page_source, PhraseNoResultsFor)

\* C1 as stated: whenever a result is appended, the results before it are
\* unchanged, and if any call of that check raised an exception (the fetch,
\* the page-source read, the 'No Search Results' lookup other than by
\* NoSuchElementException, the product lookup, the Add to Cart lookup, the
\* title read) the appended Status is Error.
C1_AnyExceptionGivesError ==
    [][Len(results') > Len(results) =>
          /\ SubSeq(results', 1, Len(results)) = results
          /\ (RaisesToHandler(answer'[1]) \/ RaisesSwallowed(answer'[1]))
                => Last(results').Status = "Error"]_vars

\* C1 amended: whenever a result is appended, the results before it are
\* unchanged; the appended Status is Error exactly when the fetch, the
\* page-source read, the 'No Search Results' lookup (other than by
\* NoSuchElementException) or the title read raised; an exception of the
\* product lookup or of the Add to Cart lookup is swallowed and leaves the
\* Status to the later steps (Listed or Delisted).
C1_PropagatedExceptionGivesError ==
    [][Len(results') > Len(results) =>
          /\ Len(results') = Len(results) + 1
          /\ SubSeq(results', 1, Len(results)) = results
          /\ Last(results').SKU = skus[Len(results')]
          /\ RaisesToHandler(answer'[1]) <=> Last(results').Status = "Error"]_vars

C1_Witness ==
    /\ Len(results) >= 2
    /\ results[1].Status = "Listed"
    /\ answer # <<>>
    /\ ReachesTitle(answer[1]) /\ answer[1].title_raises
    /\ answer[1].products_raises
    /\ Last(results).Status = "Error"

\* C2: the result sequence is never longer than the SKU sequence, its k-th
\* entry carries the k-th SKU, an appended entry is never changed or
\* removed, and when the loop is complete there is exactly one entry per
\* input SKU (repeated SKUs and SKUs that ended in Error included).
C2_ResultsAlignedWithInput ==
    /\ [](/\ Len(results) <= Len(skus)
          /\ \A k \in 1..Len(results) : results[k].SKU = skus[k]
          /\ LoopComplete => Len(results) = Len(skus))
    /\ [][/\ Len(results') >= Len(results)
          /\ \A k \in 1..Len(results) : results'[k] = results[k]]_vars

C2_Witness ==
    /\ pc = "done"
    /\ Len(skus) = 3
    /\ skus[1] = skus[2]
    /\ Len(results) = 3
    /\ results[1].Status = "Error"
    /\ results[2].Status = "Listed"

\* C3: when the loop over N >= 1 SKUs is complete, the fetches and inter-item
\* delays made are exactly fetch(sku 1), delay, fetch(sku 2), delay, ...,
\* fetch(sku N): N fetches in input order, N-1 delays, none after the last
\* fetch, whatever the statuses are.
C3_FetchesAndDelays ==
    LoopComplete =>
        LET body == Calls({"get", "delay"})
            n == Len(skus)
        IN /\ n >= 1
           /\ Len(body) = 2 * n - 1
           /\ \A k \in 1..n : body[2 * k - 1] = Fetch(skus[k])
           /\ \A k \in 1..(n - 1) : body[2 * k] = Delay(delay)

C3_Witness ==
    /\ pc = "done"
    /\ Len(skus) = 3
    /\ delay = MinDelay
    /\ Len(Calls({"get"})) = 3
    /\ Len(Calls({"delay"})) = 2
    /\ results[1].Status = "Error"
    /\ results[2].Status = "Delisted"
    /\ results[3].Status = "Listed"

\* C4: the driver is acquired at most once and before every fetch, quit at
\* most once and after every fetch; while the loop runs it is open; and when
\* the run has left the loop, by completion or by an exception, the driver
\* that was acquired has been quit once.
C4_SessionAcquiredAndReleasedOnce ==
    /\ Len(Calls({"acquire"})) <= 1
    /\ Len(Calls({"quit"})) <= 1
    /\ \A k \in 1..Len(trace) :
          /\ trace[k].op = "acquire" => k = 1
          /\ trace[k].op = "quit" => k = Len(trace) /\ trace[1].op = "acquire"
          /\ trace[k].op = "get" => trace[1].op = "acquire"
    /\ pc \in {"loop", "pass"} => driver = "open" /\ Len(Calls({"quit"})) = 0
    /\ driver = "open" => pc \in {"loop", "pass"}
    /\ (Len(Calls({"acquire"})) = 1 /\ pc \notin {"loop", "pass"}) =>
          /\ pc \in {"done", "aborted"}
          /\ driver = "quit"
          /\ Len(Calls({"quit"})) = 1
    /\ pc = "done" => Len(Calls({"acquire"})) = 1

C4_Witness ==
    /\ pc = "aborted"
    /\ Len(results) = 2
    /\ Len(skus) = 3
    /\ metrics.total = <<1>>
    /\ errors = <<>>
    /\ Last(trace).op = "quit"

\* what the four placeholders show when they show the counts over rs
CountsShown(rs) ==
    [total |-> <<Len(rs)>>,
     listed |-> <<NumWithStatus(rs, "Listed")>>,
     delisted |-> <<NumWithStatus(rs, "Delisted")>>,
     error |-> <<NumWithStatus(rs, "Error")>>]

\* every summary metric that is shown shows the count over the complete
\* result sequence
SummaryMatches ==
    \A f \in {"listed", "delisted", "error"} :
        report.summary[f] # <<>> =>
            /\ Len(results) = Len(skus)
            /\ report.summary[f][1] =
                  NumWithStatus(results, CASE f = "listed" -> "Listed"
                                           [] f = "delisted" -> "Delisted"
                                           [] f = "error" -> "Error")

\* C5 as stated: once a result has been appended and the pass that appended
\* it is over, the four metrics show, for Listed, Delisted and Error, the
\* number of results so far with that status, their sum is the number of
\* results and equals the Total shown; the final summary shows the counts
\* over the complete result sequence.
C5_CountsAlwaysMatchResults ==
    /\ (results # <<>> /\ pc # "pass") =>
          /\ metrics = CountsShown(results)
          /\ metrics.listed[1] + metrics.delisted[1] + metrics.error[1] = metrics.total[1]
    /\ SummaryMatches

\* C5 amended: after every pass of the loop that ran to its end (no call of
\* lines 383-394 raised) the four metrics show the counts over the results
\* so far, their sum is the number of results and equals the Total shown;
\* the final summary shows the counts over the complete result sequence.
\* A pass left by an exception after the append leaves the metrics behind
\* the results, each placeholder showing the count of this or of the
\* previous pass, or nothing, as they are while the pass is under way.
C5_CountsMatchAfterCompletedPass ==
    /\ (pc \in {"loop", "done"} /\ results # <<>>) =>
          /\ metrics = CountsShown(results)
          /\ metrics.listed[1] + metrics.delisted[1] + metrics.error[1] = metrics.total[1]
    /\ (pc \in {"pass", "aborted"} /\ results # <<>>) =>
          \A f \in {"total", "listed", "delisted", "error"} :
              \/ metrics[f] = CountsShown(results)[f]
              \/ metrics[f] = CountsShown(SubSeq(results, 1, Len(results) - 1))[f]
              \/ metrics[f] = <<>>
    /\ SummaryMatches

C5_Witness ==
    /\ pc = "done"
    /\ report.summary.listed = <<1>>
    /\ report.summary.delisted = <<1>>
    /\ report.summary.error = <<1>>
    /\ metrics.total = <<3>>

\* C6: when setup_driver returns None its error message has been shown, and
\* from then on the run only ends: the driver stays unacquired, no fetch is
\* issued, no result exists, no table, summary or download is shown, no
\* message is taken back, and the only step that follows is the one of
\* lines 369-371, which returns from main or leaves it.
C6_NoDriverAbortsRun ==
    /\ [](driver = "failed" =>
            /\ pc \in {"no_driver", "returned", "aborted"}
            /\ pc = "no_driver" => errors = <<MsgNoChrome>>
            /\ pc = "returned" => errors = <<MsgNoChrome, MsgNoBrowser>>
            /\ trace = <<>>
            /\ results = <<>>
            /\ report = NoReport)
    /\ [][driver = "failed" =>
            /\ pc = "no_driver"
            /\ driver' = "failed"
            /\ pc' \in {"returned", "aborted"}
            /\ Len(errors') >= Len(errors)
            /\ SubSeq(errors', 1, Len(errors)) = errors]_vars

C6_Witness ==
    /\ driver = "failed"
    /\ pc = "returned"
    /\ Len(skus) = 2
    /\ errors = <<MsgNoChrome, MsgNoBrowser>>

\* C7: for a page that was fetched and read, when the 'No Search Results'
\* element is found, or it is absent and the page text holds 'no products
\* were found' or 'no search results for' in any letter case, the status is
\* Delisted, whatever the product lookup, the Add to Cart lookup and the
\* title give.
C7_DelistingSignalWins ==
    (pc = "checked" /\ ~answer[1].get_raises /\ ~answer[1].source_raises) =>
        ((\/ answer[1].no_results = "found"
          \/ answer[1].no_results = "absent" /\ ShowsDelistingPhrase(answer[1]))
            => status = "Delisted")

C7_Witness ==
    /\ pc = "checked"
    /\ answer[1].page_source = PageNoResultsFor
    /\ answer[1].no_results = "absent"
    /\ answer[1].products = 1
    /\ answer[1].cart_buttons = 1
    /\ answer[1].title = TitleSearch /\ ~answer[1].title_raises
    /\ status = "Delisted"

\* C8: for a page that was fetched and read, with no 'No Search Results'
\* element and no delisting phrase in its text, when the product lookup or
\* the Add to Cart lookup returns at least one element the status is
\* Listed, also when the title holds 'no search results'.
C8_ProductSignalGivesListed ==
    (/\ pc = "checked"
     /\ ~answer[1].get_raises /\ ~answer[1].source_raises
     /\ answer[1].no_results = "absent"
     /\ ~ShowsDelistingPhrase(answer[1])
     /\ \/ ~answer[1].products_raises /\ answer[1].products > 0
        \/ ~answer[1].cart_raises /\ answer[1].cart_buttons > 0)
        => status = "Listed"

C8_Witness ==
    /\ pc = "checked"
    /\ answer[1].page_source = PageNearMiss
    /\ answer[1].no_results = "absent"
    /\ answer[1].products = 0 /\ ~answer[1].products_raises
    /\ answer[1].cart_buttons = 1
    /\ answer[1].title = TitleNoResults
    /\ status = "Listed"

\* C9 as stated: after a sheet has been read, a sheet without data rows
\* has been rejected with the empty-file message and a sheet whose first
\* column has only blank data cells with the no-SKUs message (the run ends
\* there also when showing the message fails), both without a driver or a
\* fetch; otherwise skus is the text of the non-blank data cells of the
\* first column, in row order, a whole number being written in its decimal
\* digits.
CellText(c) == IF c.kind = "text" THEN c.text ELSE IntStr(c.num)
NonBlankData(sh) == SelectSeq(DataCells(sh), LAMBDA c : c.kind # "blank")
Rejected(msg) ==
    /\ pc \in {"returned", "aborted"}
    /\ pc = "returned" => errors = <<msg>>
    /\ skus = <<>> /\ driver = "none" /\ trace = <<>>
C9_ReadYieldsCellTexts ==
    (pc # "uploaded" /\ sheet # Unreadable) =>
        IF Len(DataCells(sheet)) = 0
        THEN Rejected("The uploaded file is empty!")
        ELSE IF NonBlankData(sheet) = <<>>
        THEN Rejected("No SKUs found in Column A!")
        ELSE /\ Len(skus) = Len(NonBlankData(sheet))
             /\ \A k \in 1..Len(skus) : skus[k] = CellText(NonBlankData(sheet)[k])

\* C10: the status is Listed, Delisted or Error; it is Error only when a
\* call of the check raised an exception; and a page fetched and inspected
\* without any exception that shows no element, no phrase, no product and no
\* Add to Cart control is Delisted, whatever its title.
C10_FallbackIsDelisted ==
    pc = "checked" =>
        /\ status \in {"Listed", "Delisted", "Error"}
        /\ status = "Error" =>
              \/ answer[1].get_raises \/ answer[1].source_raises
              \/ answer[1].no_results = "raise" \/ answer[1].title_raises
        /\ (/\ ~answer[1].get_raises /\ ~answer[1].source_raises
            /\ answer[1].no_results = "absent"
            /\ ~answer[1].products_raises /\ ~answer[1].cart_raises
            /\ ~answer[1].title_raises
            /\ ~ShowsDelistingPhrase(answer[1])
            /\ answer[1].products = 0 /\ answer[1].cart_buttons = 0)
              => status = "Delisted"

C10_Witness ==
    /\ pc = "checked"
    /\ answer[1].page_source = PageProduct
    /\ answer[1].no_results = "absent"
    /\ ~answer[1].products_raises /\ answer[1].products = 0
    /\ ~answer[1].cart_raises /\ answer[1].cart_buttons = 0
    /\ ~answer[1].title_raises /\ answer[1].title = TitleSearch
    /\ status = "Delisted"

====
